---- MODULE Spec2Model ----
(***************************************************************************)
(* Model of the matchmaking / session server of src/server.py.             *)
(*                                                                         *)
(* A sid is kept as the sequence of the pieces that "_" separates in it    *)
(* (the sid "a_b" is <<"a", "b">>), so that the room name room_{p1}_{p2}   *)
(* and room.split("_") are computed the way the code computes them.        *)
(* Every action is one whole event handler; a handler that raises keeps    *)
(* the writes it made before the exception and records the exception in    *)
(* err.                                                                    *)
(*                                                                         *)
(*   connected, dead   the live and the gone connections                   *)
(*   waiting           the list `waiting`                                  *)
(*   games             the dict `games`, in insertion order                *)
(*   replay_requests   the dict `replay_requests`                          *)
(*   session           the socket.io session dict of every sid             *)
(*   members           the socket.io rooms, as pairs <<room, sid>>         *)
(*   pairs, asked      history: who was paired into a stored room, and who *)
(*                     of them asked for a replay since                    *)
(*   sent, err, ev     the messages and the exception of the last event,   *)
(*                     and the event itself                                *)
(*   steps             the number of events so far                         *)
(*   tasks             the handler of every sid that is suspended at a     *)
(*                     broadcast, for the runs that interleave handlers    *)
(*   quits             history of those runs: the quits that broadcast     *)
(*                     opponent_left for a room, and whom they re-enqueued *)
(***************************************************************************)
EXTENDS Naturals, Sequences, FiniteSets, TLC

VARIABLES connected, dead, waiting, games, replay_requests, session, members,
          pairs, asked, sent, err, ev, steps, tasks, quits

vars == <<connected, dead, waiting, games, replay_requests, session, members,
          pairs, asked, sent, err, ev, steps, tasks, quits>>

\* ------------------------------------------------------------------ handles
\* The connection handles of the model: "a", "b" and one that contains the
\* separator, "a_b". Each connects at most once.
Sids == {<<"a">>, <<"b">>, <<"a", "b">>}

\* How many events (connect, join, move, replay, quit, disconnect) a run has.
MaxEvents == 8

\* The handles of the runs that exercise the queue alone: three handles
\* without a separator, and the number of events of such a run.
QueueSids == {<<"a">>, <<"b">>, <<"c">>}

MaxQueueEvents == 12

\* The handles of the runs that interleave handlers, and the number of steps
\* of such a run.
AsyncSids == {<<"a">>, <<"b">>}

MaxAsyncEvents == 9

\* f"room_{p1}_{p2}", as the pieces between the separators.
RoomOf(p1, p2) == <<"room">> \o p1 \o p2

\* room.split("_")
Split(room) == room

\* A piece of a split room name, read as a sid.
AsSid(part) == <<part>>

NoRoom == <<>>

\* A session dict without a "room" key.
EmptySession == [room |-> NoRoom, color |-> "none"]

\* -------------------------------------------------------------- rules engine
\* The positions of a small game that stands for chess.Board: the initial
\* position, a position after White's move, a checkmate (game over, no legal
\* move), a dead-drawn position (game over, yet a move is still legal) and
\* the position after that move (game over as well).
InitialBoard == "start"

\* board.legal_moves with the position each move leads to.
LegalMoves(board) ==
    CASE board = "start" -> {<<<<"e2", "e4">>, "black">>}
      [] board = "black" -> {<<<<"d8", "h4">>, "mate">>,
                             <<<<"a2", "a1", "q">>, "dead">>}
      [] board = "dead"  -> {<<<<"e1", "e2">>, "dead2">>}
      [] OTHER -> {}

IsLegal(board, uci) == \E m \in LegalMoves(board) : m[1] = uci

\* board.push(move)
Push(board, uci) == (CHOOSE m \in LegalMoves(board) : m[1] = uci)[2]

\* board.is_game_over()
IsGameOver(board) == board \in {"mate", "dead", "dead2"}

\* board.result()
Result(board) == IF board = "mate" THEN "0-1" ELSE "1/2-1/2"

\* board.fen(): the position and the side to move.
Fen(board) ==
    <<board, IF board \in {"start", "dead"} THEN "w" ELSE "b">>

\* The payloads of the move requests of the model.
MoveData ==
    { [from |-> "e2", to |-> "e4"],
      [from |-> "d8", to |-> "h4"],
      [from |-> "a2", to |-> "a1", promotion |-> "q"],
      [from |-> "e1", to |-> "e2"] }

\* uci = data["from"] + data["to"] (+ data["promotion"])
Uci(data) ==
    <<data.from, data.to>> \o
        (IF "promotion" \in DOMAIN data THEN <<data.promotion>> ELSE <<>>)

\* ------------------------------------------------------------ the games dict
\* games is a dict in insertion order: a sequence of [room, board].
HasGame(g, room) == \E i \in 1..Len(g) : g[i].room = room

GetBoard(g, room) == g[CHOOSE i \in 1..Len(g) : g[i].room = room].board

GameRooms(g) == {g[i].room : i \in 1..Len(g)}

\* games[room] = board
SetGame(g, room, board) ==
    IF HasGame(g, room)
    THEN [i \in 1..Len(g) |->
            IF g[i].room = room THEN [room |-> room, board |-> board] ELSE g[i]]
    ELSE Append(g, [room |-> room, board |-> board])

\* del games[room]
DelGame(g, room) == SelectSeq(g, LAMBDA e : e.room # room)

\* del d[key] on a function with a dynamic domain
DelKey(d, key) == [k \in DOMAIN d \ {key} |-> d[k]]

\* d[key] = value on a function with a dynamic domain
PutKey(d, key, value) ==
    [k \in DOMAIN d \cup {key} |-> IF k = key THEN value ELSE d[k]]

\* ----------------------------------------------------------------- channel
\* The sids a room broadcast reaches: the live members of the room.
RoomRecipients(S, room) == {s \in S.connected : <<room, s>> \in S.members}

\* sio.emit(event, data, room=room)
EmitRoom(S, event, data, room) ==
    [S EXCEPT !.sent = Append(@, [event |-> event, data |-> data,
                                  to |-> RoomRecipients(S, room)])]

\* sio.emit(event, data, to=sid)
EmitTo(S, event, data, sid) ==
    [S EXCEPT !.sent = Append(@, [event |-> event, data |-> data,
                                  to |-> {sid} \cap S.connected])]

\* The payload of an event that carries none.
NoData == [none |-> TRUE]

\* The handler stops with an exception.
Raise(S, e) == [S EXCEPT !.err = e]

\* --------------------------------------------------------------- handlers
\* The state a handler reads and writes, as one record.
Cur == [connected |-> connected, waiting |-> waiting, games |-> games,
        replay_requests |-> replay_requests, session |-> session,
        members |-> members, pairs |-> pairs, asked |-> asked,
        sent |-> <<>>, err |-> "none"]

\* sio.get_session(sid) / sio.save_session(sid, ...) fail for a sid that is
\* not connected.
HasSession(S, sid) == sid \in S.connected

\* await sio.save_session(sid, {"room": room, "color": color})
SaveSession(S, sid, room, color) ==
    IF S.err # "none" THEN S
    ELSE IF ~HasSession(S, sid) THEN Raise(S, "KeyError")
    ELSE [S EXCEPT !.session[sid] = [room |-> room, color |-> color]]

\* await sio.enter_room(sid, room)
EnterRoom(S, sid, room) ==
    IF S.err # "none" THEN S
    ELSE [S EXCEPT !.members = @ \cup {<<room, sid>>}]

\* await sio.leave_room(sid, room)
LeaveRoom(S, sid, room) ==
    IF S.err # "none" THEN S
    ELSE [S EXCEPT !.members = @ \ {<<room, sid>>}]

\* A pairing that hands out the two popped handles in the wrong order.
TwoOldestSwapped(w) == <<w[2], w[1]>>

\* p1, p2 = waiting.pop(0), waiting.pop(0)
TwoOldest(w) == <<w[1], w[2]>>

\* waiting after the two pops
AfterPops(w) == SubSeq(w, 3, Len(w))

\* A pairing that gives the first dequeued handle black.
ColorsSwapped == <<"black", "white">>

\* The colors given to the first and the second dequeued handle.
Colors == <<"white", "black">>

\* The body of `if len(waiting) >= 2:` in join.
Pairing(S) ==
    LET p    == TwoOldest(S.waiting)
        room == RoomOf(p[1], p[2])
        S1 == [S EXCEPT !.waiting = AfterPops(@),
                        !.games = SetGame(@, room, InitialBoard),
                        !.pairs = PutKey(@, room, p),
                        !.asked = PutKey(@, room, {})]
        S2 == SaveSession(S1, p[1], room, Colors[1])
        S3 == SaveSession(S2, p[2], room, Colors[2])
        S4 == EnterRoom(EnterRoom(S3, p[1], room), p[2], room)
        start(c) == [fen |-> Fen(GetBoard(S4.games, room)), your_color |-> c]
    IN  IF S4.err # "none" THEN S4
        ELSE EmitTo(EmitTo(S4, "start", start("white"), p[1]),
                    "start", start("black"), p[2])

\* waiting.append(sid) of join
Enqueue(w, sid) == Append(w, sid)

\* async def join(sid, data)
JoinHandler(S, sid) ==
    LET S1 == [S EXCEPT !.waiting = Enqueue(@, sid)]
    IN  IF Len(S1.waiting) >= 2 THEN Pairing(S1) ELSE S1

\* A move handler that answers a legal move to the requester alone.
ApplyMoveToRequester(S, sid, room, uci) ==
    LET board == GetBoard(S.games, room)
    IN  IF IsLegal(board, uci)
        THEN LET nb == Push(board, uci)
                 S1 == [S EXCEPT !.games = SetGame(@, room, nb)]
                 S2 == EmitTo(S1, "move", [uci |-> uci, fen |-> Fen(nb)], sid)
             IN  IF IsGameOver(nb)
                 THEN EmitRoom(S2, "game_over", [result |-> Result(nb)], room)
                 ELSE S2
        ELSE EmitTo(S, "invalid", [uci |-> uci], sid)

\* A move handler that accepts a legal move only from the participant whose
\* color is the side to move.
ApplyMoveOwnTurn(S, sid, room, uci) ==
    LET board == GetBoard(S.games, room)
        turn  == IF Fen(board)[2] = "w" THEN "white" ELSE "black"
    IN  IF IsLegal(board, uci) /\ S.session[sid].color = turn
        THEN LET nb == Push(board, uci)
                 S1 == [S EXCEPT !.games = SetGame(@, room, nb)]
                 S2 == EmitRoom(S1, "move", [uci |-> uci, fen |-> Fen(nb)], room)
             IN  IF IsGameOver(nb)
                 THEN EmitRoom(S2, "game_over", [result |-> Result(nb)], room)
                 ELSE S2
        ELSE EmitTo(S, "invalid", [uci |-> uci], sid)

\* `if move in board.legal_moves:` and its two branches in move.
ApplyMove(S, sid, room, uci) ==
    LET board == GetBoard(S.games, room)
    IN  IF IsLegal(board, uci)
        THEN LET nb == Push(board, uci)
                 S1 == [S EXCEPT !.games = SetGame(@, room, nb)]
                 S2 == EmitRoom(S1, "move", [uci |-> uci, fen |-> Fen(nb)], room)
             IN  IF IsGameOver(nb)
                 THEN EmitRoom(S2, "game_over", [result |-> Result(nb)], room)
                 ELSE S2
        ELSE EmitTo(S, "invalid", [uci |-> uci], sid)

\* async def move(sid, data)
MoveHandler(S, sid, data) ==
    LET room == S.session[sid].room
    IN  IF room = NoRoom THEN Raise(S, "KeyError")
        ELSE IF ~HasGame(S.games, room) THEN S
        ELSE ApplyMove(S, sid, room, Uci(data))

\* replay_requests[room] (created when missing) with sid added
AddRequest(rr, room, sid) ==
    PutKey(rr, room, (IF room \in DOMAIN rr THEN rr[room] ELSE {}) \cup {sid})

\* The body of `if len(replay_requests[room]) == 2:` in replay.
Restart(S, room) ==
    LET S1 == [S EXCEPT !.games = SetGame(@, room, InitialBoard)]
        S2 == EmitRoom(S1, "replay_start", [fen |-> Fen(InitialBoard)], room)
    IN  [S2 EXCEPT !.replay_requests = DelKey(@, room),
                   !.asked = IF room \in DOMAIN @ THEN PutKey(@, room, {}) ELSE @]

\* async def replay(sid, data)
ReplayHandler(S, sid) ==
    LET room == S.session[sid].room
        S1 == [S EXCEPT !.replay_requests = AddRequest(@, room, sid),
                        !.asked = IF room \in DOMAIN @
                                  THEN PutKey(@, room, @[room] \cup {sid})
                                  ELSE @]
    IN  IF room = NoRoom THEN S
        ELSE IF Cardinality(S1.replay_requests[room]) = 2
        THEN Restart(S1, room) ELSE S1

\* opponent = s2 if sid == s1 else s1, with s1, s2 = parts[1], parts[2]
Opponent(sid, parts) ==
    IF sid = AsSid(parts[2]) THEN AsSid(parts[3]) ELSE AsSid(parts[2])

\* The lines of quit from `opp_session = await sio.get_session(opponent)`
\* to the re-enqueue of the opponent.
RequeueOpponent(S, opponent) ==
    IF ~HasSession(S, opponent) THEN Raise(S, "KeyError")
    ELSE [S EXCEPT !.session[opponent].room = NoRoom,
                   !.waiting = IF \E i \in 1..Len(@) : @[i] = opponent
                               THEN @ ELSE Append(@, opponent)]

\* `if room in games: del games[room]` and the same for replay_requests.
Teardown(S, room) ==
    [S EXCEPT !.games = DelGame(@, room),
              !.replay_requests = DelKey(@, room)]

\* async def quit(sid, data)
QuitHandler(S, sid) ==
    LET room  == S.session[sid].room
        parts == Split(room)
    IN  IF room = NoRoom THEN S
        ELSE IF Len(parts) < 3 THEN S
        ELSE LET S1 == EmitRoom(S, "opponent_left", NoData, room)
                 S2 == Teardown(S1, room)
                 S3 == RequeueOpponent(S2, Opponent(sid, parts))
             IN  LeaveRoom(S3, sid, room)

\* waiting.remove(sid): the first occurrence only
RemoveFirst(w, sid) ==
    IF \E i \in 1..Len(w) : w[i] = sid
    THEN LET k == CHOOSE i \in 1..Len(w) :
                      w[i] = sid /\ \A j \in 1..(i - 1) : w[j] # sid
         IN  SubSeq(w, 1, k - 1) \o SubSeq(w, k + 1, Len(w))
    ELSE w

\* The loop `for room, board in list(games.items()):` of disconnect, over the
\* rooms that are still to be visited.
RECURSIVE ScanGames(_, _, _)
ScanGames(S, sid, rooms) ==
    IF rooms = <<>> THEN S
    ELSE LET room == Head(rooms)
             rest == Tail(Split(room))
         IN  IF Len(rest) # 2 THEN Raise(S, "ValueError")
             ELSE IF sid = AsSid(rest[1]) \/ sid = AsSid(rest[2])
             THEN Teardown(EmitRoom(S, "opponent_left", NoData, room), room)
             ELSE ScanGames(S, sid, Tail(rooms))

\* async def disconnect(sid)
DisconnectHandler(S, sid) ==
    LET S1 == [S EXCEPT !.waiting = RemoveFirst(@, sid)]
    IN  ScanGames(S1, sid, [i \in 1..Len(S1.games) |-> S1.games[i].room])

\* What the channel does with a connection that is gone: it leaves every
\* room and its session dict is dropped.
DropConnection(S, sid) ==
    [S EXCEPT !.members = {m \in @ : m[2] # sid},
              !.session[sid] = EmptySession]

\* ------------------------------------------------------------ state machine
\* The participant recorded with sid in the stored session `room`, if any.
Partner(room, sid) ==
    IF room \in DOMAIN pairs /\ sid \in {pairs[room][1], pairs[room][2]}
    THEN IF pairs[room][1] = sid THEN pairs[room][2] ELSE pairs[room][1]
    ELSE <<>>

\* The event being handled, with what the requester was attached to when it
\* arrived: its room, whether that room was in the store and with which
\* board, its partner there, and the length of the queue.
Event(op, sid, data) ==
    LET room == session[sid].room
    IN  [op |-> op, sid |-> sid, data |-> data, room |-> room,
         stored |-> HasGame(games, room),
         board |-> IF HasGame(games, room) THEN GetBoard(games, room)
                   ELSE "none",
         opp |-> Partner(room, sid), qlen |-> Len(waiting)]

Init ==
    /\ connected = {}
    /\ dead = {}
    /\ waiting = <<>>
    /\ games = <<>>
    /\ replay_requests = <<>>
    /\ session = [s \in Sids |-> EmptySession]
    /\ members = {}
    /\ pairs = <<>>
    /\ asked = <<>>
    /\ sent = <<>>
    /\ err = "none"
    /\ ev = [op |-> "init", sid |-> <<>>, data |-> NoData, room |-> NoRoom,
             stored |-> FALSE, board |-> "none", opp |-> <<>>, qlen |-> 0]
    /\ steps = 0
    /\ tasks = <<>>
    /\ quits = <<>>

\* The state S a handler leaves becomes the next state. pairs (who was paired
\* into a room) and asked (which of them asked for a replay since the room
\* was paired or restarted) are records of the history, kept for the rooms of
\* the store only; no handler reads them.
\* The number of events of a run, by the handles the run has.
EventLimit ==
    IF DOMAIN session = Sids THEN MaxEvents
    ELSE IF DOMAIN session = QueueSids THEN MaxQueueEvents
    ELSE MaxAsyncEvents

Record(S, op, sid, data) ==
    /\ waiting' = S.waiting
    /\ games' = S.games
    /\ replay_requests' = S.replay_requests
    /\ session' = S.session
    /\ members' = S.members
    /\ pairs' = [r \in DOMAIN S.pairs \cap GameRooms(S.games) |-> S.pairs[r]]
    /\ asked' = [r \in DOMAIN S.pairs \cap GameRooms(S.games) |-> S.asked[r]]
    /\ sent' = S.sent
    /\ err' = S.err
    /\ ev' = Event(op, sid, data)
    /\ steps < EventLimit
    /\ steps' = steps + 1

\* A handler that runs from its first line to its last without another
\* handler in between.
Commit(S, op, sid, data) ==
    /\ Record(S, op, sid, data)
    /\ UNCHANGED <<tasks, quits>>

\* async def connect(sid, environ): a new connection, with a fresh sid.
Connect(sid) ==
    /\ sid \notin connected \cup dead
    /\ connected' = connected \cup {sid}
    /\ dead' = dead
    /\ Commit(Cur, "connect", sid, NoData)

Join(sid) ==
    /\ sid \in connected
    /\ UNCHANGED <<connected, dead>>
    /\ Commit(JoinHandler(Cur, sid), "join", sid, NoData)

Move(sid, data) ==
    /\ sid \in connected
    /\ UNCHANGED <<connected, dead>>
    /\ Commit(MoveHandler(Cur, sid, data), "move", sid, data)

Replay(sid) ==
    /\ sid \in connected
    /\ UNCHANGED <<connected, dead>>
    /\ Commit(ReplayHandler(Cur, sid), "replay", sid, NoData)

Quit(sid) ==
    /\ sid \in connected
    /\ UNCHANGED <<connected, dead>>
    /\ Commit(QuitHandler(Cur, sid), "quit", sid, NoData)

\* The connection is gone when the disconnect handler runs.
Disconnect(sid) ==
    /\ sid \in connected
    /\ connected' = connected \ {sid}
    /\ dead' = dead \cup {sid}
    /\ Commit(DropConnection(
                 DisconnectHandler([Cur EXCEPT !.connected = @ \ {sid}], sid),
                 sid),
              "disconnect", sid, NoData)

Next ==
    \E sid \in Sids :
        \/ Connect(sid)
        \/ Join(sid)
        \/ \E data \in MoveData : Move(sid, data)
        \/ Replay(sid)
        \/ Quit(sid)
        \/ Disconnect(sid)

Spec == Init /\ [][Next]_vars

\* The runs over the handles of QueueSids in which the clients only connect,
\* join, quit and disconnect: the matchmaking queue and the teardown of
\* sessions, without moves and replays.
InitQueue ==
    /\ connected = {}
    /\ dead = {}
    /\ waiting = <<>>
    /\ games = <<>>
    /\ replay_requests = <<>>
    /\ session = [s \in QueueSids |-> EmptySession]
    /\ members = {}
    /\ pairs = <<>>
    /\ asked = <<>>
    /\ sent = <<>>
    /\ err = "none"
    /\ ev = [op |-> "init", sid |-> <<>>, data |-> NoData, room |-> NoRoom,
             stored |-> FALSE, board |-> "none", opp |-> <<>>, qlen |-> 0]
    /\ steps = 0
    /\ tasks = <<>>
    /\ quits = <<>>

NextQueue ==
    \E sid \in QueueSids :
        \/ Connect(sid)
        \/ Join(sid)
        \/ Quit(sid)
        \/ Disconnect(sid)

QueueSpec == InitQueue /\ [][NextQueue]_vars

\* -------------------------------------------------- interleaved handlers
\* Every handler is a task of the event loop; a task that awaits a broadcast
\* (sio.emit to a room) is suspended there and other handlers run before it
\* resumes. quit and replay are split at that await; connect, join and
\* disconnect run as before.
IdleTask == [pc |-> "idle", room |-> NoRoom]

\* quit passes its two early returns and reaches the broadcast.
QuitReachesEmit(S, sid) ==
    /\ S.session[sid].room # NoRoom
    /\ Len(Split(S.session[sid].room)) >= 3

\* quit, up to `await sio.emit("opponent_left", room=room)`.
QuitUntilEmit(S, sid) ==
    IF QuitReachesEmit(S, sid)
    THEN EmitRoom(S, "opponent_left", NoData, S.session[sid].room)
    ELSE S

\* quit, from the line after the broadcast to its end; room and opponent are
\* the locals computed before the broadcast.
QuitAfterEmit(S, sid, room) ==
    LeaveRoom(RequeueOpponent(Teardown(S, room), Opponent(sid, Split(room))),
              sid, room)

\* replay reaches `if len(replay_requests[room]) == 2:` with the condition
\* true.
ReplayReachesEmit(S, sid) ==
    LET room == S.session[sid].room
    IN  /\ room # NoRoom
        /\ Cardinality(AddRequest(S.replay_requests, room, sid)[room]) = 2

\* replay, up to `await sio.emit("replay_start", ..., room=room)`, or to its
\* end when it does not restart.
ReplayUntilEmit(S, sid) ==
    LET room == S.session[sid].room
        S1 == [S EXCEPT !.replay_requests = AddRequest(@, room, sid),
                        !.asked = IF room \in DOMAIN @
                                  THEN PutKey(@, room, @[room] \cup {sid})
                                  ELSE @]
        S2 == [S1 EXCEPT !.games = SetGame(@, room, InitialBoard)]
    IN  IF room = NoRoom THEN S
        ELSE IF ReplayReachesEmit(S, sid)
        THEN EmitRoom(S2, "replay_start", [fen |-> Fen(InitialBoard)], room)
        ELSE S1

\* replay, after the broadcast: `del replay_requests[room]`.
ReplayAfterEmit(S, room) ==
    IF room \notin DOMAIN S.replay_requests THEN Raise(S, "KeyError")
    ELSE [S EXCEPT !.replay_requests = DelKey(@, room),
                   !.asked = IF room \in DOMAIN @ THEN PutKey(@, room, {})
                             ELSE @]

\* `sid in waiting`
Queued(w, sid) == \E i \in 1..Len(w) : w[i] = sid

NoQuits == [by |-> <<>>, requeued |-> {}]

QuitsOf(room) == IF room \in DOMAIN quits THEN quits[room] ELSE NoQuits

InitAsync ==
    /\ connected = {}
    /\ dead = {}
    /\ waiting = <<>>
    /\ games = <<>>
    /\ replay_requests = <<>>
    /\ session = [s \in AsyncSids |-> EmptySession]
    /\ members = {}
    /\ pairs = <<>>
    /\ asked = <<>>
    /\ sent = <<>>
    /\ err = "none"
    /\ ev = [op |-> "init", sid |-> <<>>, data |-> NoData, room |-> NoRoom,
             stored |-> FALSE, board |-> "none", opp |-> <<>>, qlen |-> 0]
    /\ steps = 0
    /\ tasks = [s \in AsyncSids |-> IdleTask]
    /\ quits = <<>>

\* join; the history of the quits of a room starts anew when a pair is put
\* into the room.
AsyncJoin(sid) ==
    /\ sid \in connected
    /\ tasks[sid].pc = "idle"
    /\ UNCHANGED <<connected, dead, tasks>>
    /\ Record(JoinHandler(Cur, sid), "join", sid, NoData)
    /\ quits' = IF Len(waiting) >= 1
                THEN LET p == TwoOldest(Enqueue(waiting, sid))
                     IN  DelKey(quits, RoomOf(p[1], p[2]))
                ELSE quits

\* quit runs up to its broadcast and is suspended there, or returns early.
QuitBegin(sid) ==
    /\ sid \in connected
    /\ tasks[sid].pc = "idle"
    /\ UNCHANGED <<connected, dead>>
    /\ Record(QuitUntilEmit(Cur, sid), "quit", sid, NoData)
    /\ LET room == session[sid].room
       IN  IF QuitReachesEmit(Cur, sid)
           THEN /\ tasks' = [tasks EXCEPT ![sid] =
                                [pc |-> "quit", room |-> room]]
                /\ quits' = PutKey(quits, room,
                                   [QuitsOf(room) EXCEPT
                                       !.by = Append(@, sid)])
           ELSE UNCHANGED <<tasks, quits>>

\* The suspended quit resumes and runs to its end.
QuitResume(sid) ==
    /\ tasks[sid].pc = "quit"
    /\ UNCHANGED <<connected, dead>>
    /\ LET room == tasks[sid].room
           S == QuitAfterEmit(Cur, sid, room)
           opponent == Opponent(sid, Split(room))
       IN  /\ Record(S, "quit_resume", sid, NoData)
           /\ quits' = IF Queued(S.waiting, opponent) /\ ~Queued(waiting, opponent)
                       THEN PutKey(quits, room,
                                   [QuitsOf(room) EXCEPT
                                       !.requeued = @ \cup {opponent}])
                       ELSE quits
    /\ tasks' = [tasks EXCEPT ![sid] = IdleTask]

\* replay runs to its end, or up to the broadcast of a restart, where it is
\* suspended.
ReplayBegin(sid) ==
    /\ sid \in connected
    /\ tasks[sid].pc = "idle"
    /\ UNCHANGED <<connected, dead, quits>>
    /\ Record(ReplayUntilEmit(Cur, sid), "replay", sid, NoData)
    /\ tasks' = IF ReplayReachesEmit(Cur, sid)
                THEN [tasks EXCEPT ![sid] =
                         [pc |-> "replay", room |-> session[sid].room]]
                ELSE tasks

\* The suspended replay resumes and deletes the request set.
ReplayResume(sid) ==
    /\ tasks[sid].pc = "replay"
    /\ UNCHANGED <<connected, dead, quits>>
    /\ Record(ReplayAfterEmit(Cur, tasks[sid].room), "replay_resume", sid,
              NoData)
    /\ tasks' = [tasks EXCEPT ![sid] = IdleTask]

NextAsync ==
    \E sid \in AsyncSids :
        \/ Connect(sid)
        \/ AsyncJoin(sid)
        \/ QuitBegin(sid)
        \/ QuitResume(sid)
        \/ ReplayBegin(sid)
        \/ ReplayResume(sid)
        \/ Disconnect(sid)

AsyncSpec == InitAsync /\ [][NextAsync]_vars

\* ------------------------------------------------------------------ claims
\* The positions in sent of the messages of one event name.
Msgs(s, event) == {i \in 1..Len(s) : s[i].event = event}

\* How often a handle occurs in a queue.
Count(w, sid) == Cardinality({i \in 1..Len(w) : w[i] = sid})

\* C1: a join that makes the queue hold two handles adds to the store a
\* session, at the initial position, for exactly the two oldest handles of
\* the queue, the oldest first, and leaves the rest of the queue in order,
\* two shorter; a join that leaves a single handle queued creates nothing.
C1_JoinPairsTwoOldest ==
    [][ev'.op = "join" =>
         LET w    == Append(waiting, ev'.sid)
             room == RoomOf(w[1], w[2])
         IN  IF Len(w) >= 2
             THEN /\ HasGame(games', room)
                  /\ GetBoard(games', room) = InitialBoard
                  /\ pairs'[room] = <<w[1], w[2]>>
                  /\ waiting' = SubSeq(w, 3, Len(w))
                  /\ Len(waiting') = Len(w) - 2
                  /\ GameRooms(games') = GameRooms(games) \cup {room}
             ELSE /\ waiting' = w
                  /\ games' = games
                  /\ session' = session]_vars

\* A join arrived with two handles queued, paired the two oldest and left the
\* third queued.
C1_Witness ==
    /\ ev.op = "join"
    /\ ev.qlen = 2
    /\ Len(waiting) = 1
    /\ Len(sent) = 2
    /\ games # <<>>

\* What a quit by A = ev'.sid, whose stored session has the other participant
\* B = ev'.opp, has to bring about.
QuitOutcome ==
    LET A == ev'.sid
        B == ev'.opp
        room == ev'.room
    IN  /\ ~HasGame(games', room)
        /\ room \notin DOMAIN replay_requests'
        /\ \E i \in Msgs(sent', "opponent_left") : B \in sent'[i].to
        /\ session'[B].room = NoRoom
        /\ waiting' = Append(waiting, B)
        /\ Count(waiting', A) = Count(waiting, A)

\* The requester of the event is one of the two distinct participants paired
\* into a stored session; the other one is connected and not queued.
InSoundSession ==
    /\ ev'.stored
    /\ ev'.opp # <<>>
    /\ ev'.opp # ev'.sid
    /\ ev'.opp \in connected
    /\ Count(waiting, ev'.opp) = 0

\* C2: a quit by a participant of a stored session destroys the session and
\* its replay request set, delivers opponent_left to the other participant,
\* clears that participant's attachment and appends it to the queue, and
\* does not enqueue the quitter.
C2_QuitRequeuesOpponent ==
    [][(ev'.op = "quit" /\ InSoundSession) => QuitOutcome]_vars

\* The store, the queue, the request sets and the attachments are as they
\* were before the event.
StateUnchanged ==
    /\ waiting' = waiting
    /\ games' = games
    /\ replay_requests' = replay_requests
    /\ session' = session

\* C3: a disconnect by a participant of a stored session destroys the
\* session, delivers opponent_left to the other participant, clears that
\* participant's attachment and does not add it to the queue.
C3_DisconnectNotifiesOpponent ==
    [][(ev'.op = "disconnect" /\ InSoundSession) =>
         LET B == ev'.opp
             room == ev'.room
         IN  /\ ~HasGame(games', room)
             /\ \E i \in Msgs(sent', "opponent_left") : B \in sent'[i].to
             /\ session'[B].room = NoRoom
             /\ Count(waiting', B) = Count(waiting, B)]_vars

\* C4: a quit or a disconnect by a handle whose session is not in the store
\* (any more) emits no opponent_left and leaves the store, the request sets,
\* every other handle's attachment and every other handle's place in the
\* queue as they were.
C4_TeardownIdempotent ==
    [][(ev'.op \in {"quit", "disconnect"} /\ ~ev'.stored) =>
         /\ Msgs(sent', "opponent_left") = {}
         /\ games' = games
         /\ replay_requests' = replay_requests
         /\ \A s \in Sids \ {ev'.sid} :
               /\ session'[s] = session[s]
               /\ Count(waiting', s) = Count(waiting, s)
         /\ ev'.op = "quit" => waiting' = waiting]_vars

\* The event restarted a game: it broadcast replay_start.
Restarted == Msgs(sent, "replay_start") # {}

\* C5: a replay by a participant of a stored session restarts the game if
\* and only if, with this request, both of the session's two distinct
\* participants have asked since the session was paired or last restarted.
C5_RestartIffBothAsked ==
    [][(ev'.op = "replay" /\ ev'.stored /\ ev'.opp # <<>>) =>
         (Restarted' <=>
             /\ ev'.opp # ev'.sid
             /\ ev'.opp \in asked[ev'.room] \cup {ev'.sid})]_vars

\* C6: no handle is queued twice and no session pairs a handle with itself.
C6_NoDuplicateNoSelfPair ==
    /\ \A s \in Sids : Count(waiting, s) <= 1
    /\ \A room \in DOMAIN pairs : pairs[room][1] # pairs[room][2]

\* The handles paired into a stored room.
Participants(room) == {pairs[room][1], pairs[room][2]}

\* C7: no handle is queued while it is a participant of a stored session,
\* and no handle is a participant of two stored sessions.
C7_QueuedXorAttached ==
    /\ \A s \in Sids : \A room \in DOMAIN pairs :
          s \in Participants(room) => Count(waiting, s) = 0
    /\ \A r1, r2 \in DOMAIN pairs :
          r1 # r2 => Participants(r1) \cap Participants(r2) = {}

\* C8: every session of the store has two distinct participants, both live
\* and both attached to it.
C8_TwoLiveParticipants ==
    \A room \in GameRooms(games) :
        /\ room \in DOMAIN pairs
        /\ pairs[room][1] # pairs[room][2]
        /\ \A s \in Participants(room) :
              s \in connected /\ session[s].room = room

\* C9: a move by a participant of a stored session whose game is not over
\* and whose other participant is connected: a legal move sets the board to
\* its successor and sends one move message, carrying the move and the new
\* state, to exactly the two participants; an illegal one changes nothing
\* and sends one invalid message to the requester alone.
C9_MoveLegalOrInvalid ==
    [][(/\ ev'.op = "move" /\ ev'.stored /\ ev'.opp # <<>>
        /\ ev'.opp \in connected
        /\ ~IsGameOver(ev'.board)) =>
         LET uci == Uci(ev'.data)
             room == ev'.room
         IN  IF IsLegal(ev'.board, uci)
             THEN /\ GetBoard(games', room) = Push(ev'.board, uci)
                  /\ Cardinality(Msgs(sent', "move")) = 1
                  /\ sent'[1] = [event |-> "move",
                                 data |-> [uci |-> uci,
                                           fen |-> Fen(GetBoard(games', room))],
                                 to |-> {ev'.sid, ev'.opp}]
                  /\ Msgs(sent', "invalid") = {}
                  /\ waiting' = waiting
                  /\ session' = session
                  /\ replay_requests' = replay_requests
                  /\ GameRooms(games') = GameRooms(games)
             ELSE /\ StateUnchanged
                  /\ members' = members
                  /\ sent' = <<[event |-> "invalid", data |-> [uci |-> uci],
                                to |-> {ev'.sid}]>>]_vars

\* A legal move in a session of two distinct participants reached both.
C9_Witness ==
    /\ ev.op = "move"
    /\ ev.stored
    /\ ev.opp # <<>>
    /\ ev.opp # ev.sid
    /\ ~IsGameOver(ev.board)
    /\ IsLegal(ev.board, Uci(ev.data))
    /\ Len(sent) >= 1
    /\ sent[1].event = "move"
    /\ sent[1].to = {ev.sid, ev.opp}

\* C10: a move by a handle with no attachment, by a handle whose session is
\* not in the store, or for a game that is over changes nothing, sends
\* nothing and raises nothing.
C10_StrayMoveIgnored ==
    [][(ev'.op = "move" /\ (~ev'.stored \/ IsGameOver(ev'.board))) =>
         /\ StateUnchanged
         /\ sent' = <<>>
         /\ err' = "none"]_vars

\* C11: in a stored session whose two distinct participants are connected, a
\* legal move to a terminal position sends the move message and then exactly one
\* game_over message with the result, both to the two participants; and a
\* move for a game that is over leaves the board as it is (the board of a
\* finished game only changes by a restart).
C11_GameOverThenFrozen ==
    [][(/\ ev'.op = "move" /\ ev'.stored /\ ev'.opp # <<>>
        /\ ev'.opp # ev'.sid
        /\ ev'.opp \in connected) =>
         LET uci == Uci(ev'.data)
             room == ev'.room
         IN  /\ (/\ ~IsGameOver(ev'.board)
                 /\ IsLegal(ev'.board, uci)
                 /\ IsGameOver(Push(ev'.board, uci))) =>
                    /\ Len(sent') = 2
                    /\ sent'[1].event = "move"
                    /\ sent'[1].to = {ev'.sid, ev'.opp}
                    /\ sent'[2] = [event |-> "game_over",
                                   data |-> [result |->
                                               Result(GetBoard(games', room))],
                                   to |-> {ev'.sid, ev'.opp}]
             /\ IsGameOver(ev'.board) =>
                    /\ HasGame(games', room)
                    /\ GetBoard(games', room) = ev'.board
                    /\ Msgs(sent', "move") = {}]_vars

\* C12: no handle of the matchmaking queue is a disconnected one: after a
\* handle has disconnected it is nowhere in the queue, so that no pairing can
\* dequeue a dead handle.
C12_NoDeadHandleQueued ==
    \A i \in 1..Len(waiting) : waiting[i] \notin dead

\* C13: a replay request set exists only for a room of the store: teardown
\* discards the pending set, and a replay of a handle whose session was torn
\* down creates no new one.
C13_RequestsOnlyForStored ==
    \A room \in DOMAIN replay_requests : HasGame(games, room)

\* C14: a join that pairs two distinct connected handles p1, p2, dequeued in
\* that order, attaches p1 as white and p2 as black to the room of the pair,
\* stores the initial board for it, and sends exactly two messages: a start
\* with the initial board and "white" to p1 alone, then a start with the
\* initial board and "black" to p2 alone.
C14_FirstWhiteSecondBlack ==
    [][(ev'.op = "join" /\ ev'.qlen >= 1) =>
         LET w    == Enqueue(waiting, ev'.sid)
             p1   == w[1]
             p2   == w[2]
             room == RoomOf(p1, p2)
         IN  (p1 # p2 /\ {p1, p2} \subseteq connected) =>
               /\ session'[p1] = [room |-> room, color |-> "white"]
               /\ session'[p2] = [room |-> room, color |-> "black"]
               /\ HasGame(games', room)
               /\ GetBoard(games', room) = InitialBoard
               /\ sent' = <<[event |-> "start",
                             data |-> [fen |-> Fen(InitialBoard),
                                       your_color |-> "white"],
                             to |-> {p1}],
                            [event |-> "start",
                             data |-> [fen |-> Fen(InitialBoard),
                                       your_color |-> "black"],
                             to |-> {p2}]>>]_vars

\* A join has paired b, dequeued first, with a: b is white, a is black, and
\* each got its start message.
C14_Witness ==
    /\ ev.op = "join"
    /\ ev.sid = <<"a">>
    /\ ev.qlen = 1
    /\ session[<<"b">>] = [room |-> <<"room", "b", "a">>, color |-> "white"]
    /\ session[<<"a">>] = [room |-> <<"room", "b", "a">>, color |-> "black"]
    /\ Len(sent) = 2
    /\ sent[1].to = {<<"b">>}
    /\ sent[1].data.your_color = "white"
    /\ sent[2].to = {<<"a">>}
    /\ sent[2].data.your_color = "black"

\* C15: after an event that enqueues a handle (a join, or a quit, which
\* re-enqueues the opponent) the queue holds fewer than two handles.
C15_QueueBelowTwo ==
    [][ev'.op \in {"join", "quit"} => Len(waiting') < 2]_vars

\* The sids of a sequence are all different.
NoRepeat(s) == \A i, j \in 1..Len(s) : i # j => s[i] # s[j]

\* C16: the quits of the participants of a session, none of them quitting
\* twice, broadcast opponent_left once and re-enqueue at most one handle, as
\* in a serial order, where the second quit finds its attachment cleared.
C16_QuitsAsSerial ==
    \A room \in DOMAIN quits :
        NoRepeat(quits[room].by) =>
            /\ Len(quits[room].by) <= 1
            /\ Cardinality(quits[room].requeued) <= 1

\* C17: a restart that was suspended at its broadcast resumes without an
\* error, and no replay restarts a room while a restart of that room is
\* suspended: one replay_start for each agreement.
C17_RestartAtomic ==
    [][/\ ev'.op = "replay_resume" => err' = "none"
       /\ (ev'.op = "replay" /\ Restarted') =>
             \A s \in AsyncSids :
                 ~(tasks[s].pc = "replay" /\ tasks[s].room = ev'.room)]_vars

\* C18: a quit or a disconnect by a participant of one stored session, with
\* any handles, the ones that contain the separator included, raises no
\* error from the room name, removes exactly that session from the store,
\* and (quit) clears the attachment of the other participant and of nobody
\* else.
C18_OpponentOfTheSession ==
    [][(/\ ev'.op \in {"quit", "disconnect"}
        /\ ev'.stored /\ ev'.opp # <<>> /\ ev'.opp # ev'.sid
        /\ \A room \in DOMAIN pairs :
              ev'.sid \in Participants(room) => room = ev'.room) =>
         /\ err' # "ValueError"
         /\ games' = DelGame(games, ev'.room)
         /\ ev'.op = "quit" =>
               /\ ev'.opp \in connected => session'[ev'.opp].room = NoRoom
               /\ \A s \in Sids \ {ev'.opp} : session'[s] = session[s]]_vars

\* C19: a room enters the store only by a join that dequeues a pair; no
\* other event, a replay in particular, inserts an entry for a room that is
\* not in the store.
C19_OnlyJoinCreates ==
    [][GameRooms(games') \ GameRooms(games) # {} => ev'.op = "join"]_vars

\* C20: whether a move for a stored session is accepted depends on the board
\* and the move alone, never on the requester or its color: a move that is
\* legal on the board is applied and broadcast as a move message with the
\* new state, and a move that is not legal leaves the board and broadcasts
\* no move.
C20_ColorNeverConsulted ==
    [][(ev'.op = "move" /\ ev'.stored) =>
         LET uci  == Uci(ev'.data)
             room == ev'.room
         IN  /\ HasGame(games', room)
             /\ IsLegal(ev'.board, uci) =>
                   /\ GetBoard(games', room) = Push(ev'.board, uci)
                   /\ Len(sent') >= 1
                   /\ sent'[1].event = "move"
                   /\ sent'[1].data =
                         [uci |-> uci, fen |-> Fen(Push(ev'.board, uci))]
             /\ ~IsLegal(ev'.board, uci) =>
                   /\ GetBoard(games', room) = ev'.board
                   /\ Msgs(sent', "move") = {}]_vars

\* The participant attached as white sent a move while Black was to move,
\* and the move was applied and broadcast.
C20_Witness ==
    /\ ev.op = "move"
    /\ ev.stored
    /\ ev.opp # <<>>
    /\ ev.opp # ev.sid
    /\ session[ev.sid].color = "white"
    /\ Fen(ev.board)[2] = "b"
    /\ IsLegal(ev.board, Uci(ev.data))
    /\ GetBoard(games, ev.room) = Push(ev.board, Uci(ev.data))
    /\ Len(sent) >= 1
    /\ sent[1].event = "move"

====
